---- MODULE Spec2Model ----
(***************************************************************************)
(* The hand-rolled Zarr v2 writer of mupattern-cli (zarr_v2.rs): array     *)
(* metadata (.zarray), attribute sidecars (.zattrs) and raw little-endian  *)
(* chunk files under root/<array_path>/.                                   *)
(*                                                                         *)
(* A path (a Path / &str argument) is the sequence of its "/"-separated    *)
(* components: "a/b" is <<"a", "b">>, "/w/x" is <<"", "w", "x">>, "" is     *)
(* <<"">>.  A location is where the operating system resolves a path to:   *)
(* the sequence of directory names from the filesystem root <<>>.          *)
(* A file's content is a record [text, bytes]: `text` is a JSON document   *)
(* as the sequence of its lexical pieces (punctuation, quoted strings,     *)
(* null, and one piece per decimal digit), `bytes` is a binary payload.    *)
(* The writer produces either JSON or binary, so one of the two is <<>>.   *)
(***************************************************************************)
EXTENDS Integers, Sequences, FiniteSets, TLC

VARIABLES
    dirs,      \* the directories that exist: a set of locations
    files,     \* regular files: location -> content
    call,      \* the most recent call of the sequential API and its result
    writers,   \* concurrent chunk writers: id -> [op, key, data, pc, off, seen]
    lastDone   \* id of the concurrent writer whose write finished most recently, 0 if none

vars == <<dirs, files, call, writers, lastDone>>

\* ------------------------------------------------------------------ bounds
MaxRank == 2      \* longest shape / chunks vector drawn for array creation
MaxData == 2      \* longest u16 payload drawn for a chunk write
MaxCoord == 11    \* largest chunk coordinate drawn for key derivation

\* ------------------------------------------------------------ small helpers
RECURSIVE SeqsUpTo(_, _)
SeqsUpTo(S, n) ==
    IF n = 0 THEN {<<>>}
    ELSE LET shorter == SeqsUpTo(S, n - 1)
         IN  shorter \cup {Append(s, x) : s \in {t \in shorter : Len(t) = n - 1}, x \in S}

RECURSIVE Flatten(_)
Flatten(ss) == IF ss = <<>> THEN <<>> ELSE Head(ss) \o Flatten(Tail(ss))

Reverse(s) == [i \in 1..Len(s) |-> s[Len(s) + 1 - i]]

\* ------------------------------------------------------------------ paths
\* The root: &Path argument of every call, an absolute directory with a
\* parent: "/w/root".
Root == <<"", "w", "root">>

\* Path::is_absolute
IsAbsolute(path) == Len(path) >= 2 /\ path[1] = ""

\* Path::join: an absolute argument replaces the base, anything else is
\* appended to it (nothing is normalised).
Join(base, path) == IF IsAbsolute(path) THEN path ELSE base \o path

\* root.join(array_path)
ArrayDir(array_path) == Join(Root, array_path)

\* Path resolution by the operating system: "" and "." stay, ".." goes to
\* the parent (the filesystem root is its own parent), a name descends.
ParentLoc(loc) == IF loc = <<>> THEN <<>> ELSE SubSeq(loc, 1, Len(loc) - 1)

LocStep(loc, c) ==
    IF c \in {"", "."} THEN loc
    ELSE IF c = ".." THEN ParentLoc(loc)
    ELSE Append(loc, c)

RECURSIVE Locate(_)
Locate(path) ==
    IF path = <<>> THEN <<>>
    ELSE LocStep(Locate(SubSeq(path, 1, Len(path) - 1)), path[Len(path)])

\* the locations the resolution of `path` passes through, the last included
PrefixLocs(path) == {Locate(SubSeq(path, 1, k)) : k \in 0..Len(path)}

\* every component before the last resolves in an existing directory
LookupOk(fs, path) ==
    \A k \in 0..(Len(path) - 1) : Locate(SubSeq(path, 1, k)) \in fs.dirs

\* ------------------------------------------------------------- filesystem
Text(toks) == [text |-> toks, bytes |-> <<>>]
Binary(bs) == [text |-> <<>>, bytes |-> bs]

\* std::fs::create_dir_all: makes the directory and every missing directory
\* on the way to it, in order; fails at the first component that resolves
\* to a regular file, keeping what it made before it.
CreateDirAllOk(fs, dir) == \A l \in PrefixLocs(dir) : l \notin DOMAIN fs.files

RECURSIVE MkdirFrom(_, _, _)
MkdirFrom(fs, dir, k) ==
    IF k > Len(dir) \/ Locate(SubSeq(dir, 1, k)) \in DOMAIN fs.files THEN fs
    ELSE MkdirFrom([fs EXCEPT !.dirs = @ \cup {Locate(SubSeq(dir, 1, k))}], dir, k + 1)

CreateDirAll(fs, dir) == MkdirFrom(fs, dir, 1)

FsWriteOkMutNoParentCheck(fs, path) ==
    /\ Len(path) > 0
    /\ path[Len(path)] \notin {"", ".", ".."}
    /\ Locate(path) \notin fs.dirs

\* std::fs::write: create-or-truncate the file, then write the whole content.
\* Fails, changing nothing, when a directory on the way to the file does not
\* exist (ENOENT / ENOTDIR) or the path names a directory (EISDIR): it ends
\* in "", "." or "..", or resolves to an existing directory.
FsWriteOk(fs, path) ==
    /\ Len(path) > 0
    /\ path[Len(path)] \notin {"", ".", ".."}
    /\ LookupOk(fs, path)
    /\ Locate(path) \notin fs.dirs

FsWriteMutAppend(fs, path, content) ==
    [fs EXCEPT !.files =
        IF Locate(path) \in DOMAIN fs.files
        THEN [fs.files EXCEPT ![Locate(path)] = [text  |-> @.text \o content.text,
                                                 bytes |-> @.bytes \o content.bytes]]
        ELSE (Locate(path) :> content) @@ fs.files]

FsWrite(fs, path, content) ==
    [fs EXCEPT !.files = (Locate(path) :> content) @@ fs.files]

\* ------------------------------------------------------- serde_json output
Digit(d) == <<"0", "1", "2", "3", "4", "5", "6", "7", "8", "9">>[d + 1]

Quote(s) == "\"" \o s \o "\""

RECURSIVE JNum(_)
JNum(n) == IF n < 10 THEN <<Digit(n)>> ELSE Append(JNum(n \div 10), Digit(n % 10))

JStr(s) == <<Quote(s)>>

JNull == <<"null">>

RECURSIVE CommaJoin(_)
CommaJoin(items) ==
    IF items = <<>> THEN <<>>
    ELSE IF Len(items) = 1 THEN items[1]
    ELSE items[1] \o <<",">> \o CommaJoin(Tail(items))

JArr(items) == <<"[">> \o CommaJoin(items) \o <<"]">>

JNumArr(ns) == JArr([i \in 1..Len(ns) |-> JNum(ns[i])])

JStrArr(ss) == JArr([i \in 1..Len(ss) |-> JStr(ss[i])])

\* A struct serialises as an object, fields in declaration order.
JField(name, value) == <<Quote(name), ":">> \o value

JObj(fields) == <<"{">> \o CommaJoin(fields) \o <<"}">>

ZarrayMetaMutSwapped(shape, chunks, dtype) ==
    JObj(<< JField("zarr_format", JNum(2)),
            JField("shape", JNumArr(chunks)),
            JField("chunks", JNumArr(shape)),
            JField("dtype", JStr(dtype)),
            JField("compressor", JNull),
            JField("fill_value", JNull),
            JField("order", JStr("C")) >>)

\* serde_json::to_string(&ZarrayMeta {..})
ZarrayMeta(shape, chunks, dtype) ==
    JObj(<< JField("zarr_format", JNum(2)),
            JField("shape", JNumArr(shape)),
            JField("chunks", JNumArr(chunks)),
            JField("dtype", JStr(dtype)),
            JField("compressor", JNull),
            JField("fill_value", JNull),
            JField("order", JStr("C")) >>)

BboxAttrsMutWidthHeight(x, y, w, h) ==
    JObj(<< JField("x", JNum(x)), JField("y", JNum(y)),
            JField("w", JNum(h)), JField("h", JNum(w)) >>)

BboxAttrs(x, y, w, h) ==
    JObj(<< JField("x", JNum(x)), JField("y", JNum(y)),
            JField("w", JNum(w)), JField("h", JNum(h)) >>)

CropZattrs(x, y, w, h) ==
    JObj(<< JField("axis_names", JStrArr(<<"t", "c", "z", "y", "x">>)),
            JField("bbox", BboxAttrs(x, y, w, h)) >>)

BgDescription == "Median of pixels outside all crop bounding boxes"

BgZattrs ==
    JObj(<< JField("axis_names", JStrArr(<<"t", "c", "z">>)),
            JField("description", JStr(BgDescription)) >>)

\* ----------------------------------------------------------- chunk encoding
\* u16::to_le_bytes
U16ToLeBytesMutBigEndian(v) == <<v \div 256, v % 256>>

U16ToLeBytes(v) == <<v % 256, v \div 256>>

\* data.iter().flat_map(|v| v.to_le_bytes()).collect()
EncodeU16(data) == Flatten([i \in 1..Len(data) |-> U16ToLeBytes(data[i])])

\* An f64 is carried as its IEEE-754 binary64 bit pattern, most significant
\* byte first; f64::to_le_bytes emits the least significant byte first.
F64ToLeBytes(value) == Reverse(value)

\* ------------------------------------------------------------- the handlers
\* Each handler maps the filesystem fs = [dirs, files] to the filesystem it
\* leaves and the Result it returns.
Ok(fs)  == [dirs |-> fs.dirs, files |-> fs.files, result |-> "Ok"]
Err(fs) == [dirs |-> fs.dirs, files |-> fs.files, result |-> "Err"]

write_array_u16(fs, array_path, shape, chunks) ==
    LET dir    == ArrayDir(array_path)
        made   == CreateDirAll(fs, dir)
        target == Join(dir, <<".zarray">>)
    IN  IF ~CreateDirAllOk(fs, dir) THEN Err(made)
        ELSE IF ~FsWriteOk(made, target) THEN Err(made)
        ELSE Ok(FsWrite(made, target, Text(ZarrayMeta(shape, chunks, "<u2"))))

write_array_f64(fs, array_path, shape, chunks) ==
    LET dir    == ArrayDir(array_path)
        made   == CreateDirAll(fs, dir)
        target == Join(dir, <<".zarray">>)
    IN  IF ~CreateDirAllOk(fs, dir) THEN Err(made)
        ELSE IF ~FsWriteOk(made, target) THEN Err(made)
        ELSE Ok(FsWrite(made, target, Text(ZarrayMeta(shape, chunks, "<f8"))))

write_crop_zattrs(fs, array_path, x, y, w, h) ==
    LET target == Join(ArrayDir(array_path), <<".zattrs">>)
    IN  IF ~FsWriteOk(fs, target) THEN Err(fs)
        ELSE Ok(FsWrite(fs, target, Text(CropZattrs(x, y, w, h))))

write_background_zattrsMutWrongFile(fs, array_path) ==
    LET target == Join(ArrayDir(array_path), <<".zarray">>)
    IN  IF ~FsWriteOk(fs, target) THEN Err(fs)
        ELSE Ok(FsWrite(fs, target, Text(BgZattrs)))

write_background_zattrs(fs, array_path) ==
    LET target == Join(ArrayDir(array_path), <<".zattrs">>)
    IN  IF ~FsWriteOk(fs, target) THEN Err(fs)
        ELSE Ok(FsWrite(fs, target, Text(BgZattrs)))

\* The key of a chunk: its coordinates in decimal, joined in order with ".".
RECURSIVE Dec(_)
Dec(n) == IF n < 10 THEN Digit(n) ELSE Dec(n \div 10) \o Digit(n % 10)

RECURSIVE key_for(_)
key_for(coordinates) ==
    IF coordinates = <<>> THEN ""
    ELSE IF Len(coordinates) = 1 THEN Dec(coordinates[1])
    ELSE Dec(coordinates[1]) \o "." \o key_for(Tail(coordinates))

\* A key that holds no "/" is a path of one component.
AsPath(key) == <<key>>

ChunkPathMutSharedFile(array_path, chunk_key) == Join(ArrayDir(array_path), <<"chunk">>)

\* root.join(array_path).join(chunk_key)
ChunkPath(array_path, chunk_key) == Join(ArrayDir(array_path), chunk_key)

write_chunk_u16(fs, array_path, chunk_key, data) ==
    LET path == ChunkPath(array_path, chunk_key)
    IN  IF ~FsWriteOk(fs, path) THEN Err(fs)
        ELSE Ok(FsWrite(fs, path, Binary(EncodeU16(data))))

write_chunk_f64(fs, array_path, chunk_key, value) ==
    LET path == ChunkPath(array_path, chunk_key)
    IN  IF ~FsWriteOk(fs, path) THEN Err(fs)
        ELSE Ok(FsWrite(fs, path, Binary(F64ToLeBytes(value))))

\* ---------------------------------------------------------------- actions
Fs == [dirs |-> dirs, files |-> files]

\* The record of a call: its name, its arguments (unused ones empty) and the
\* Result it returned.
Call(op, path, key, shape, chunks, bbox, data, result) ==
    [op |-> op, path |-> path, key |-> key, shape |-> shape, chunks |-> chunks,
     bbox |-> bbox, data |-> data, coords |-> <<>>, result |-> result]

NoCall == Call("none", <<>>, <<>>, <<>>, <<>>, <<>>, <<>>, "Ok")

Returns(r, c) ==
    /\ dirs' = r.dirs
    /\ files' = r.files
    /\ call' = c
    /\ UNCHANGED <<writers, lastDone>>

WriteArrayU16(array_path, shape, chunks) ==
    LET r == write_array_u16(Fs, array_path, shape, chunks)
    IN  Returns(r, Call("write_array_u16", array_path, <<>>, shape, chunks, <<>>, <<>>, r.result))

WriteArrayF64(array_path, shape, chunks) ==
    LET r == write_array_f64(Fs, array_path, shape, chunks)
    IN  Returns(r, Call("write_array_f64", array_path, <<>>, shape, chunks, <<>>, <<>>, r.result))

WriteCropZattrs(array_path, x, y, w, h) ==
    LET r == write_crop_zattrs(Fs, array_path, x, y, w, h)
    IN  Returns(r, Call("write_crop_zattrs", array_path, <<>>, <<>>, <<>>, <<x, y, w, h>>, <<>>, r.result))

WriteBackgroundZattrs(array_path) ==
    LET r == write_background_zattrs(Fs, array_path)
    IN  Returns(r, Call("write_background_zattrs", array_path, <<>>, <<>>, <<>>, <<>>, <<>>, r.result))

WriteChunkU16(array_path, chunk_key, data) ==
    LET r == write_chunk_u16(Fs, array_path, chunk_key, data)
    IN  Returns(r, Call("write_chunk_u16", array_path, chunk_key, <<>>, <<>>, <<>>, data, r.result))

WriteChunkF64(array_path, chunk_key, value) ==
    LET r == write_chunk_f64(Fs, array_path, chunk_key, value)
    IN  Returns(r, Call("write_chunk_f64", array_path, chunk_key, <<>>, <<>>, <<>>, value, r.result))

\* The state before any call: root and its ancestors exist and are empty.
InitFs ==
    /\ dirs = PrefixLocs(Root)
    /\ files = <<>>
    /\ call = NoCall
    /\ writers = <<>>
    /\ lastDone = 0

\* ------------------------------------------- metadata and attributes (SpecMeta)
MetaPath == <<"a">>
ShapeDims == {0, 12}
ChunkDims == {0, 3}
Shapes == SeqsUpTo(ShapeDims, MaxRank)
Chunks == SeqsUpTo(ChunkDims, MaxRank)
CropArgs == {<<10, 20, 30, 40>>, <<7, 7, 300, 5>>}

NextMeta ==
    \/ \E shape \in Shapes, chunks \in Chunks : WriteArrayU16(MetaPath, shape, chunks)
    \/ \E shape \in Shapes, chunks \in Chunks : WriteArrayF64(MetaPath, shape, chunks)
    \/ \E b \in CropArgs : WriteCropZattrs(MetaPath, b[1], b[2], b[3], b[4])
    \/ WriteBackgroundZattrs(MetaPath)

SpecMeta == InitFs /\ [][NextMeta]_vars

\* --------------------------------------------- one array, all calls (SpecStore)
StorePath == <<"a">>
StoreDims == { <<<<4, 6>>, <<2, 3>>>>, <<<<2, 3>>, <<1, 3>>>> }
StoreBbox == <<10, 20, 30, 40>>
StoreKeys == {AsPath(key_for(<<0, 0>>)), AsPath(key_for(<<0, 1>>))}
U16Vals == {7, 258}
Payloads == SeqsUpTo(U16Vals, MaxData)
F64One == <<63, 240, 0, 0, 0, 0, 0, 0>>          \* 1.0   = 0x3FF0000000000000
F64Tenth == <<63, 185, 153, 153, 153, 153, 153, 154>>  \* 0.1 = 0x3FB999999999999A
F64Vals == {F64One, F64Tenth}

NextStore ==
    \/ \E d \in StoreDims : WriteArrayU16(StorePath, d[1], d[2])
    \/ \E d \in StoreDims : WriteArrayF64(StorePath, d[1], d[2])
    \/ WriteCropZattrs(StorePath, StoreBbox[1], StoreBbox[2], StoreBbox[3], StoreBbox[4])
    \/ WriteBackgroundZattrs(StorePath)
    \/ \E k \in StoreKeys, data \in Payloads : WriteChunkU16(StorePath, k, data)
    \/ \E k \in StoreKeys, v \in F64Vals : WriteChunkF64(StorePath, k, v)

SpecStore == InitFs /\ [][NextStore]_vars

\* ------------------------------------------------ nested array paths (SpecDirs)
DirPaths == {<<"a", "b">>, <<"..">>}
DirShape == <<2, 3>>
DirChunks == <<1, 3>>
DirKey == AsPath(key_for(<<0, 0>>))
AbsKey == <<"", "w", "out">>      \* "/w/out"
UpKey == <<"..", "x">>            \* "../x"
DirKeys == {DirKey, AbsKey, <<"">>}
DirChunkCalls == (DirPaths \X DirKeys) \cup {<< <<"a", "b">>, UpKey >>}

NextDirs ==
    \/ \E p \in DirPaths : WriteArrayU16(p, DirShape, DirChunks)
    \/ WriteArrayF64(<<"a", "b">>, DirShape, DirChunks)
    \/ WriteCropZattrs(<<"a", "b">>, StoreBbox[1], StoreBbox[2], StoreBbox[3], StoreBbox[4])
    \/ \E p \in DirPaths : WriteBackgroundZattrs(p)
    \/ \E pk \in DirChunkCalls : WriteChunkU16(pk[1], pk[2], <<7>>)
    \/ WriteChunkF64(<<"a", "b">>, DirKey, F64One)

SpecDirs == InitFs /\ [][NextDirs]_vars

\* ------------------------------------------------------ key derivation (SpecKey)
Coordinates == {c \in SeqsUpTo(0..MaxCoord, 3) : Len(c) > 0}

\* The caller derives the key of the chunk at `coordinates` and the file the
\* chunk write will address.
KeyFor(array_path, coordinates) ==
    /\ call' = [Call("key_for", array_path, AsPath(key_for(coordinates)), <<>>, <<>>, <<>>, <<>>, "Ok")
                  EXCEPT !.coords = coordinates]
    /\ UNCHANGED <<dirs, files, writers, lastDone>>

NextKey == \E c \in Coordinates : KeyFor(StorePath, c)

SpecKey == InitFs /\ [][NextKey]_vars

\* ------------------------------------------- concurrent chunk writers (SpecConc)
\* Two threads each run one chunk write on the same array.  std::fs::write is
\* File::create (create or truncate, own descriptor at offset 0) followed by
\* write_all, a loop of write(2) calls that each put at least one byte at the
\* descriptor's offset; the steps of the two threads interleave freely.
Writers == {1, 2}
ConcPath == <<"a">>
ConcKeys == {AsPath(key_for(<<0, 0>>)), AsPath(key_for(<<0, 1>>))}
ConcInputs ==
    {[op |-> "write_chunk_u16", key |-> k, data |-> d] :
        k \in ConcKeys, d \in {<<7>>, <<258, 7>>}}
    \cup {[op |-> "write_chunk_f64", key |-> k, data |-> F64One] : k \in ConcKeys}

\* let bytes = ...  (computed before the file is opened)
Payload(w) ==
    IF w.op = "write_chunk_u16" THEN EncodeU16(w.data) ELSE F64ToLeBytes(w.data)

WriterPath(w) == ChunkPath(ConcPath, w.key)

\* The array the writers share: created, given crop attributes, and holding
\* an earlier three-value chunk at 0.0.
ConcStart ==
    LET created == write_array_u16([dirs |-> PrefixLocs(Root), files |-> <<>>],
                                   ConcPath, <<2, 3>>, <<1, 3>>)
        attrs   == write_crop_zattrs(created, ConcPath, 10, 20, 30, 40)
    IN  write_chunk_u16(attrs, ConcPath, AsPath(key_for(<<0, 0>>)), <<7, 7, 7>>)

InitConc ==
    /\ dirs = ConcStart.dirs
    /\ files = ConcStart.files
    /\ call = NoCall
    /\ writers \in [Writers -> {[op |-> i.op, key |-> i.key, data |-> i.data,
                                 pc |-> "start", off |-> 0, seen |-> {}] : i \in ConcInputs}]
    /\ lastDone = 0

CreateTruncateMutKeep(fs, path) ==
    [fs EXCEPT !.files = IF Locate(path) \in DOMAIN fs.files THEN fs.files
                         ELSE (Locate(path) :> Binary(<<>>)) @@ fs.files]

\* File::create: O_CREAT | O_TRUNC
CreateTruncate(fs, path) ==
    [fs EXCEPT !.files = (Locate(path) :> Binary(<<>>)) @@ fs.files]

\* write(2) of `part` at offset `off`: overwrites, extends, and leaves a hole
\* of zero bytes when the file is shorter than the offset.
WriteAt(bytes, off, part) ==
    LET end == IF Len(bytes) > off + Len(part) THEN Len(bytes) ELSE off + Len(part)
    IN  [i \in 1..end |->
            IF i > off /\ i <= off + Len(part) THEN part[i - off]
            ELSE IF i <= Len(bytes) THEN bytes[i]
            ELSE 0]

\* A writer is done when write_all has put its last byte (or, for an empty
\* payload, when the file is open).
PcAfter(w, off) == IF off = Len(Payload(w)) THEN "done" ELSE "writing"

Open(w) ==
    /\ writers[w].pc = "start"
    /\ IF FsWriteOk(Fs, WriterPath(writers[w]))
       THEN /\ files' = CreateTruncate(Fs, WriterPath(writers[w])).files
            /\ writers' = [writers EXCEPT ![w].pc = PcAfter(writers[w], 0),
                                          ![w].seen = {v \in Writers : writers[v].pc = "done"}]
            /\ lastDone' = IF PcAfter(writers[w], 0) = "done" THEN w ELSE lastDone
       ELSE /\ files' = files
            /\ writers' = [writers EXCEPT ![w].pc = "failed"]
            /\ lastDone' = lastDone
    /\ UNCHANGED <<dirs, call>>

WriteSome(w, n) ==
    LET me   == writers[w]
        path == WriterPath(me)
        part == SubSeq(Payload(me), me.off + 1, me.off + n)
    IN  /\ me.pc = "writing"
        /\ me.off + n <= Len(Payload(me))
        /\ files' = [files EXCEPT ![Locate(path)].bytes = WriteAt(@, me.off, part)]
        /\ writers' = [writers EXCEPT ![w].off = me.off + n,
                                      ![w].pc = PcAfter(me, me.off + n)]
        /\ lastDone' = IF PcAfter(me, me.off + n) = "done" THEN w ELSE lastDone
        /\ UNCHANGED <<dirs, call>>

NextConc ==
    \E w \in Writers :
        \/ Open(w)
        \/ \E n \in 1..8 : WriteSome(w, n)

SpecConc == InitConc /\ [][NextConc]_vars

\* ----------------------------------------------- reading a JSON record back
\* The inverse of the serialisation above, as a reader of the files does it:
\* look a key up, then read the value that follows its colon.
IsDigit(tok) == \E d \in 0..9 : Digit(d) = tok
DigitVal(tok) == CHOOSE d \in 0..9 : Digit(d) = tok

RECURSIVE NumEnd(_, _)
NumEnd(t, i) == IF i <= Len(t) /\ IsDigit(t[i]) THEN NumEnd(t, i + 1) ELSE i

RECURSIVE NumVal(_, _, _)
NumVal(t, i, acc) ==
    IF i <= Len(t) /\ IsDigit(t[i]) THEN NumVal(t, i + 1, acc * 10 + DigitVal(t[i])) ELSE acc

\* The numbers of an array whose "[" is at i - 1.
RECURSIVE NumArrFrom(_, _, _)
NumArrFrom(t, i, acc) ==
    IF i > Len(t) THEN acc
    ELSE IF t[i] = "," THEN NumArrFrom(t, i + 1, acc)
    ELSE IF IsDigit(t[i]) THEN NumArrFrom(t, NumEnd(t, i), Append(acc, NumVal(t, i, 0)))
    ELSE acc

\* The string pieces of an array whose "[" is at i - 1.
RECURSIVE StrArrFrom(_, _, _)
StrArrFrom(t, i, acc) ==
    IF i > Len(t) \/ t[i] = "]" THEN acc
    ELSE IF t[i] = "," THEN StrArrFrom(t, i + 1, acc)
    ELSE StrArrFrom(t, i + 1, Append(acc, t[i]))

HasKey(t, k) == \E i \in 1..(Len(t) - 2) : t[i] = Quote(k) /\ t[i + 1] = ":"
ValueIndex(t, k) == (CHOOSE i \in 1..(Len(t) - 2) : t[i] = Quote(k) /\ t[i + 1] = ":") + 2

FieldTok(t, k) == IF HasKey(t, k) THEN t[ValueIndex(t, k)] ELSE "<missing>"
FieldNum(t, k) ==
    IF HasKey(t, k) /\ IsDigit(t[ValueIndex(t, k)]) THEN NumVal(t, ValueIndex(t, k), 0) ELSE -1
FieldNumArr(t, k) ==
    IF HasKey(t, k) /\ t[ValueIndex(t, k)] = "[" THEN NumArrFrom(t, ValueIndex(t, k) + 1, <<>>)
    ELSE <<-1>>
FieldStrArr(t, k) ==
    IF HasKey(t, k) /\ t[ValueIndex(t, k)] = "[" THEN StrArrFrom(t, ValueIndex(t, k) + 1, <<>>)
    ELSE <<"<missing>">>

\* The keys of the outermost object, in document order.
RECURSIVE KeysFrom(_, _, _, _)
KeysFrom(t, i, depth, acc) ==
    IF i > Len(t) THEN acc
    ELSE IF t[i] \in {"{", "["} THEN KeysFrom(t, i + 1, depth + 1, acc)
    ELSE IF t[i] \in {"}", "]"} THEN KeysFrom(t, i + 1, depth - 1, acc)
    ELSE IF depth = 1 /\ i < Len(t) /\ t[i + 1] = ":"
         THEN KeysFrom(t, i + 1, depth, Append(acc, t[i]))
    ELSE KeysFrom(t, i + 1, depth, acc)

ObjKeys(t) == KeysFrom(t, 1, 0, <<>>)

ReadZarray(t) ==
    [keys        |-> ObjKeys(t),
     zarr_format |-> FieldNum(t, "zarr_format"),
     shape       |-> FieldNumArr(t, "shape"),
     chunks      |-> FieldNumArr(t, "chunks"),
     dtype       |-> FieldTok(t, "dtype"),
     compressor  |-> FieldTok(t, "compressor"),
     fill_value  |-> FieldTok(t, "fill_value"),
     order       |-> FieldTok(t, "order")]

ReadZattrs(t) ==
    [keys        |-> ObjKeys(t),
     axis_names  |-> FieldStrArr(t, "axis_names"),
     bbox        |-> IF HasKey(t, "bbox")
                     THEN <<FieldNum(t, "x"), FieldNum(t, "y"), FieldNum(t, "w"), FieldNum(t, "h")>>
                     ELSE <<>>,
     description |-> IF HasKey(t, "description") THEN FieldTok(t, "description") ELSE ""]

Quoted(ss) == [i \in 1..Len(ss) |-> Quote(ss[i])]

ArrayOps == {"write_array_u16", "write_array_f64"}
AttrOps == {"write_crop_zattrs", "write_background_zattrs"}
ChunkOps == {"write_chunk_u16", "write_chunk_f64"}

\* where the files of an array are
ZarrayFile(array_path) == Locate(Join(ArrayDir(array_path), <<".zarray">>))
ZattrsFile(array_path) == Locate(Join(ArrayDir(array_path), <<".zattrs">>))
ChunkFile(array_path, chunk_key) == Locate(ChunkPath(array_path, chunk_key))

\* shape and chunks have the same rank and no zero dimension
ValidDims(shape, chunks) ==
    /\ Len(shape) = Len(chunks)
    /\ \A i \in 1..Len(shape) : shape[i] > 0
    /\ \A i \in 1..Len(chunks) : chunks[i] > 0

\* ------------------------------------------------------------------ claims

\* C1: array creation with a zero dimension or with shape and chunks of
\* different lengths returns an error and leaves the filesystem as it was.
C1_InvalidCreateRejected ==
    [][ (call'.op \in ArrayOps /\ ~ValidDims(call'.shape, call'.chunks))
          => (call'.result = "Err" /\ dirs' = dirs /\ files' = files) ]_vars

ExpectedZarray(shape, chunks, dtype) ==
    [keys        |-> Quoted(<<"zarr_format", "shape", "chunks", "dtype",
                              "compressor", "fill_value", "order">>),
     zarr_format |-> 2,
     shape       |-> shape,
     chunks      |-> chunks,
     dtype       |-> Quote(dtype),
     compressor  |-> "null",
     fill_value  |-> "null",
     order       |-> Quote("C")]

\* C2: after a successful creation with equal-rank, all-positive shape and
\* chunks, .zarray reads back as shape and chunks equal to the arguments in
\* order, dtype "<u2" for u16 and "<f8" for f64, zarr_format 2, compressor
\* null, fill_value null, order "C", and no other key.
C2_MetadataReadsBack ==
    (call.op \in ArrayOps /\ call.result = "Ok" /\ ValidDims(call.shape, call.chunks))
      => /\ ZarrayFile(call.path) \in DOMAIN files
         /\ files[ZarrayFile(call.path)].bytes = <<>>
         /\ ReadZarray(files[ZarrayFile(call.path)].text)
              = ExpectedZarray(call.shape, call.chunks,
                               IF call.op = "write_array_u16" THEN "<u2" ELSE "<f8")

C2_Witness ==
    /\ call.op = "write_array_f64" /\ call.result = "Ok"
    /\ call.shape = <<12, 12>> /\ call.chunks = <<3, 3>>
    /\ ReadZarray(files[ZarrayFile(call.path)].text).shape = <<12, 12>>
    /\ ReadZarray(files[ZarrayFile(call.path)].text).chunks = <<3, 3>>

ExpectedCrop(bbox) ==
    [keys        |-> Quoted(<<"axis_names", "bbox">>),
     axis_names  |-> Quoted(<<"t", "c", "z", "y", "x">>),
     bbox        |-> bbox,
     description |-> ""]

ExpectedBackground ==
    [keys        |-> Quoted(<<"axis_names", "description">>),
     axis_names  |-> Quoted(<<"t", "c", "z">>),
     bbox        |-> <<>>,
     description |-> Quote(BgDescription)]

\* C8: every successful attribute write leaves .zattrs holding exactly the
\* record of that call (crop: axis_names [t,c,z,y,x] and bbox x,y,w,h equal to
\* the arguments in order; background: axis_names [t,c,z] and the fixed
\* description) with no key of an earlier record, and no other call of the
\* sequence touches .zattrs.
C8_AttrsOverwrite ==
    [][ /\ (call'.op \in AttrOps /\ call'.result = "Ok")
           => /\ ZattrsFile(call'.path) \in DOMAIN files'
              /\ files'[ZattrsFile(call'.path)].bytes = <<>>
              /\ ReadZattrs(files'[ZattrsFile(call'.path)].text)
                   = IF call'.op = "write_crop_zattrs"
                     THEN ExpectedCrop(call'.bbox) ELSE ExpectedBackground
        /\ (call'.op \notin AttrOps /\ ZattrsFile(call'.path) \in DOMAIN files)
           => /\ ZattrsFile(call'.path) \in DOMAIN files'
              /\ files'[ZattrsFile(call'.path)] = files[ZattrsFile(call'.path)] ]_vars

C8_Witness ==
    /\ call.op = "write_crop_zattrs" /\ call.result = "Ok"
    /\ call.bbox = <<10, 20, 30, 40>>
    /\ ReadZattrs(files[ZattrsFile(call.path)].text).bbox = <<10, 20, 30, 40>>

\* Reading a chunk file back as consecutive 2-byte little-endian groups.
DecodeU16LE(bs) == [i \in 1..(Len(bs) \div 2) |-> bs[2 * i - 1] + 256 * bs[2 * i]]

\* C3: a successful write_chunk_u16 of N values leaves the chunk file with
\* exactly 2*N bytes which decode, low byte first, to the N values in their
\* order; a successful write_chunk_f64 leaves a file of exactly 8 bytes.
C3_ChunkRoundTrip ==
    (call.op \in ChunkOps /\ call.result = "Ok")
      => LET f == ChunkFile(call.path, call.key)
         IN  /\ f \in DOMAIN files
             /\ files[f].text = <<>>
             /\ call.op = "write_chunk_u16"
                  => /\ Len(files[f].bytes) = 2 * Len(call.data)
                     /\ DecodeU16LE(files[f].bytes) = call.data
             /\ call.op = "write_chunk_f64" => Len(files[f].bytes) = 8

C3_Witness ==
    /\ call.op = "write_chunk_u16" /\ call.result = "Ok"
    /\ call.data = <<258, 7>>
    /\ files[ChunkFile(call.path, call.key)].bytes = <<2, 1, 7, 0>>

\* C4: right after a successful chunk write, the same write again (same array
\* path, key and payload) succeeds and leaves every file and directory as the
\* first write left it.
C4_ChunkWriteIdempotent ==
    /\ (call.op = "write_chunk_u16" /\ call.result = "Ok")
         => write_chunk_u16(Fs, call.path, call.key, call.data) = Ok(Fs)
    /\ (call.op = "write_chunk_f64" /\ call.result = "Ok")
         => write_chunk_f64(Fs, call.path, call.key, call.data) = Ok(Fs)

C4_Witness ==
    /\ call.op = "write_chunk_u16" /\ call.result = "Ok"
    /\ call.data = <<7>>
    /\ files[ChunkFile(call.path, call.key)].bytes = <<7, 0>>
    /\ write_chunk_u16(Fs, call.path, call.key, call.data).files = files

\* shape, chunks and dtype as recorded in <array_path>/.zarray
MetaOf(fls, array_path) ==
    LET r == ReadZarray(fls[ZarrayFile(array_path)].text)
    IN  <<r.shape, r.chunks, r.dtype>>

\* C5 as stated: once <array_path>/.zarray exists, no call of the core
\* (creation included) changes the shape, chunks and dtype it records.
C5_MetadataNeverMutated ==
    [][ ZarrayFile(StorePath) \in DOMAIN files
          => /\ ZarrayFile(StorePath) \in DOMAIN files'
             /\ MetaOf(files', StorePath) = MetaOf(files, StorePath) ]_vars

\* C5 amended: attribute writes and chunk writes never change .zarray; a
\* successful array creation on the path replaces the record, which then
\* holds that creation's shape, chunks and dtype.
C5_MetadataChangedOnlyByCreation ==
    [][ ZarrayFile(StorePath) \in DOMAIN files
          => /\ ZarrayFile(StorePath) \in DOMAIN files'
             /\ (call'.op \in ArrayOps /\ call'.result = "Ok")
                  => MetaOf(files', StorePath)
                       = <<call'.shape, call'.chunks,
                           Quote(IF call'.op = "write_array_u16" THEN "<u2" ELSE "<f8")>>
             /\ (call'.op \notin ArrayOps)
                  => files'[ZarrayFile(StorePath)] = files[ZarrayFile(StorePath)] ]_vars

C5_Witness ==
    /\ call.op = "write_array_f64" /\ call.result = "Ok"
    /\ call.shape = <<4, 6>>
    /\ MetaOf(files, StorePath) = <<<<4, 6>>, <<2, 3>>, Quote("<f8")>>
    /\ ZattrsFile(StorePath) \in DOMAIN files
    /\ ChunkFile(StorePath, AsPath(key_for(<<0, 1>>))) \in DOMAIN files

RECURSIVE NumDigits(_)
NumDigits(n) == IF n < 10 THEN 1 ELSE 1 + NumDigits(n \div 10)

RECURSIVE SumDigits(_)
SumDigits(c) == IF c = <<>> THEN 0 ELSE NumDigits(Head(c)) + SumDigits(Tail(c))

\* C9: the key of coordinates is their decimal values joined in order with
\* "." and no padding ([2,0,5] gives "2.0.5"), and two different coordinate
\* tuples of the same rank never address the same chunk file.
C9_KeyInjective ==
    (call.op = "key_for")
      => /\ call.coords = <<2, 0, 5>> => call.key = <<"2.0.5">>
         /\ call.coords = <<10, 1>> => call.key = <<"10.1">>
         /\ Len(call.key[1]) = SumDigits(call.coords) + Len(call.coords) - 1
         /\ \A d \in Coordinates :
              (Len(d) = Len(call.coords) /\ d # call.coords)
                => Locate(ChunkPath(call.path, AsPath(key_for(d))))
                     # Locate(ChunkPath(call.path, call.key))

C9_Witness ==
    /\ call.op = "key_for"
    /\ call.coords = <<2, 0, 5>>
    /\ call.key = <<"2.0.5">>

InitDirs == PrefixLocs(Root)

DirExists(fs, path) == LookupOk(fs, path) /\ Locate(path) \in fs.dirs

IsAttrOrChunkFile(f) == f[Len(f)] # ".zarray"

\* the directory of f is that of an array a creation has written, or one on
\* the way to it
UnderCreatedArray(f) ==
    \E p \in DirPaths : /\ ZarrayFile(p) \in DOMAIN files
                         /\ ParentLoc(f) \in PrefixLocs(ArrayDir(p))

\* C10 as stated: only array creation creates directories; a chunk or
\* attribute write for an array path whose directory does not exist returns
\* an error and changes nothing; so every chunk or .zattrs file lies under
\* an array path on which a creation (of it or of a path nested beneath it)
\* has run.
C10_WritesOnlyUnderCreatedDirs ==
    /\ [](\A f \in DOMAIN files :
            IsAttrOrChunkFile(f) => (ParentLoc(f) \in dirs /\ UnderCreatedArray(f)))
    /\ [][ /\ call'.op \notin ArrayOps => dirs' = dirs
           /\ (call'.op \in (ChunkOps \cup AttrOps) /\ ~DirExists(Fs, ArrayDir(call'.path)))
                => (call'.result = "Err" /\ files' = files /\ dirs' = dirs) ]_vars

\* the file a chunk or attribute write addresses
TargetOf(c) ==
    IF c.op \in ChunkOps THEN ChunkPath(c.path, c.key)
    ELSE Join(ArrayDir(c.path), <<".zattrs">>)

DirPart(path) == SubSeq(path, 1, Len(path) - 1)

\* every regular file lies in a directory that exists, and that either
\* existed before the first call or is on the way to an array a creation
\* has written
FilesInExistingDirs ==
    \A f \in DOMAIN files :
        /\ ParentLoc(f) \in dirs
        /\ (ParentLoc(f) \in InitDirs \/ UnderCreatedArray(f))

\* C10 amended: only array creation creates directories; a chunk or
\* attribute write whose file would lie in a directory that does not exist
\* returns an error and changes nothing; so every file lies in a directory
\* that existed before the first call or that an array creation made.
C10_WritesNeedExistingDir ==
    /\ []FilesInExistingDirs
    /\ [][ /\ call'.op \notin ArrayOps => dirs' = dirs
           /\ (call'.op \in (ChunkOps \cup AttrOps)
                 /\ ~DirExists(Fs, DirPart(TargetOf(call'))))
                => (call'.result = "Err" /\ files' = files /\ dirs' = dirs) ]_vars

\* a chunk write into the missing a/b was refused, while a chunk written
\* through an absolute key and attributes written through ".." lie beside root
C10_Witness ==
    /\ call.op = "write_chunk_u16" /\ call.result = "Err"
    /\ call.path = <<"a", "b">> /\ call.key = DirKey
    /\ Locate(ArrayDir(<<"a", "b">>)) \notin dirs
    /\ Locate(AbsKey) \in DOMAIN files
    /\ ZattrsFile(<<"..">>) \in DOMAIN files

SameKey(v, w) == writers[v].key = writers[w].key

\* The payload a writer supplied, read back from its chunk file.
HoldsOwnPayload(w) ==
    LET f == Locate(WriterPath(writers[w]))
    IN  /\ f \in DOMAIN files
        /\ files[f].text = <<>>
        /\ IF writers[w].op = "write_chunk_u16"
           THEN DecodeU16LE(files[f].bytes) = writers[w].data
                /\ Len(files[f].bytes) = 2 * Len(writers[w].data)
           ELSE files[f].bytes = Reverse(writers[w].data)

\* C6: a step of a chunk writer changes no file but <array_path>/<its key>
\* (.zarray, .zattrs and the other chunk files keep their content) and no
\* directory, and a writer whose key no other writer uses leaves, once it
\* has returned, exactly its own payload in its chunk file.
C6_DistinctKeysIndependent ==
    /\ [](\A w \in Writers :
            (writers[w].pc = "done" /\ \A v \in Writers \ {w} : ~SameKey(v, w))
              => HoldsOwnPayload(w))
    /\ [][ /\ dirs' = dirs
           /\ \A f \in DOMAIN files :
                /\ f \in DOMAIN files'
                /\ files'[f] # files[f]
                     => \E w \in Writers : /\ writers'[w] # writers[w]
                                           /\ f = Locate(Root) \o ConcPath \o writers[w].key
           /\ \A f \in DOMAIN files' \ DOMAIN files :
                \E w \in Writers : /\ writers'[w] # writers[w]
                                   /\ f = Locate(Root) \o ConcPath \o writers[w].key ]_vars

C6_Witness ==
    /\ \A w \in Writers : writers[w].pc = "done"
    /\ ~SameKey(1, 2)
    /\ writers[1].data = <<258, 7>>
    /\ writers[2].op = "write_chunk_f64"
    /\ files[Locate(WriterPath(writers[1]))].bytes = <<2, 1, 7, 0>>
    /\ files[Locate(WriterPath(writers[2]))].bytes = <<0, 0, 0, 0, 0, 0, 240, 63>>

\* C7 as stated: once two writers of the same key with different payloads
\* have both completed, the chunk file is the complete payload of the writer
\* whose write finished last.
C7_LastWriteWins ==
    (/\ \A w \in Writers : writers[w].pc = "done"
     /\ SameKey(1, 2)
     /\ Payload(writers[1]) # Payload(writers[2]))
      => files[Locate(WriterPath(writers[1]))].bytes = Payload(writers[lastDone])

\* C7 amended: once both writers of one key have returned, the chunk file is
\* as long as one of the two payloads and each of its bytes is the byte at
\* the same offset of one of the two payloads or a zero byte (a hole left by
\* the other writer's truncation); it is the complete payload of the writer
\* that returned last when that writer opened the file after the other had
\* returned.
C7_PositionwiseMix ==
    (/\ \A w \in Writers : writers[w].pc = "done"
     /\ SameKey(1, 2))
      => LET bs == files[Locate(WriterPath(writers[1]))].bytes
         IN  /\ \E w \in Writers : Len(bs) = Len(Payload(writers[w]))
             /\ \A i \in 1..Len(bs) :
                  \/ bs[i] = 0
                  \/ \E w \in Writers : /\ i <= Len(Payload(writers[w]))
                                        /\ bs[i] = Payload(writers[w])[i]
             /\ \A w \in Writers :
                  (Writers \ {w}) \subseteq writers[w].seen => bs = Payload(writers[w])

\* two same-key writers have returned and left bytes of both payloads
C7_Witness ==
    /\ \A w \in Writers : writers[w].pc = "done"
    /\ SameKey(1, 2)
    /\ writers[1].data = <<258, 7>>
    /\ writers[2].data = <<7>>
    /\ lastDone = 2
    /\ files[Locate(WriterPath(writers[1]))].bytes = <<7, 0, 7, 0>>

====
